---- MODULE Spec2Model ----
(***************************************************************************)
(* Model of wrapper/utils/GitUtils.py: the GitUtils controller over a      *)
(* local git repository and its "origin" remote.                           *)
(*                                                                         *)
(* The repository, the remote server and the commit graph are the          *)
(* environment of the controller; the Git SDK calls the code makes         *)
(* (Repo(), active_branch, heads[...], is_dirty, fetch, pull, is_ancestor, *)
(* checkout) are modelled by what they do on that environment.  Transport  *)
(* is reliable: fetch always answers.  A string is a sequence of atoms,    *)
(* "/" being the separator atom, so that str.split('/') and the f-string   *)
(* f'{remote}/{branch}' are computed and not assumed.                      *)
(***************************************************************************)
EXTENDS Integers, Sequences, FiniteSets, TLC

\* Bound of the commit graph: at most MaxCommits commits are ever created.
MaxCommits == 4

VARIABLES
    pc,               \* "new" before __init__, "ready" after it, "failed" if it raised
    repoValid,        \* the path holds a valid git repository
    remotes,          \* names of the remotes configured in the repository
    heads,            \* repo.heads: local branch name -> tip commit
    cur,              \* repo.active_branch
    dirty,            \* repo.is_dirty()
    commits,          \* the commits created so far
    srvRefs,          \* refs the remote serves, in the order fetch reports them
    srv,              \* the remote's refs: ref name (without remote prefix) -> commit
    tracking,         \* refs/remotes/origin/*: remote-tracking refs of the repository
    gitRepo,          \* self.__gitRepo is not None
    gitRemote,        \* self.__gitRemote: "None" or the remote's name
    fetchBranchInfo,  \* self.__fetchBranchInfo: <<>> (None) or <<FetchInfo>>
    op,               \* the last step: an operation's name, or "env"
    arg,              \* its argument: <<>> (none / None) or <<branch name>>
    result,           \* what it returned or raised
    calls,            \* SDK calls it made: fetch, pull, checkout counts
    tick              \* flips at every operation call

vars == <<pc, repoValid, remotes, heads, cur, dirty, commits, srvRefs, srv, tracking,
          gitRepo, gitRemote, fetchBranchInfo, op, arg, result, calls, tick>>

envVars == <<repoValid, remotes, heads, cur, dirty, commits, srvRefs, srv, tracking>>

----------------------------------------------------------------------------
\* Strings

Sep == "/"
origin == "origin"
main == <<"main">>
featx == <<"feature", Sep, "x">>
wip == <<"wip">>
v1 == <<"v1">>

\* The branch names checkout and isUpToDate are called with.
BranchArgs == {main, featx, wip}

\* f'{remote}/{branch}', and the name of a fetched remote-tracking ref.
RefName(remote, branch) == <<remote, Sep>> \o branch

FirstSep(s) == CHOOSE i \in 1..Len(s) : s[i] = Sep /\ \A j \in 1..(i - 1) : s[j] # Sep

\* str.split('/')
RECURSIVE split(_)
split(s) ==
    IF \A i \in 1..Len(s) : s[i] # Sep
    THEN <<s>>
    ELSE <<SubSeq(s, 1, FirstSep(s) - 1)>> \o split(SubSeq(s, FirstSep(s) + 1, Len(s)))

----------------------------------------------------------------------------
\* Commit graph

\* A commit is identified, as by its hash, by its parents and what it carries:
\* who made it and on which branch.
Commit(by, on, ps) == [by |-> by, on |-> on, parents |-> ps]
Root == Commit("root", <<>>, {})

RECURSIVE AncestorsOf(_)
AncestorsOf(c) ==
    {c} \cup UNION {AncestorsOf(p) : p \in c.parents}

\* repo.is_ancestor(ancestor_rev, rev): git merge-base --is-ancestor
is_ancestor(ancestor_rev, rev) == ancestor_rev \in AncestorsOf(rev)

CanCommit == Cardinality(commits) < MaxCommits

----------------------------------------------------------------------------
\* Results

None == "None"
Ret(b) == [exc |-> "none", bool |-> IF b THEN "true" ELSE "false", strs |-> <<>>]
RetStrs(l) == [exc |-> "none", bool |-> "none", strs |-> l]
Raise(e) == [exc |-> e, bool |-> "none", strs |-> <<>>]
NoCalls == [fetch |-> 0, pull |-> 0, checkout |-> 0]

----------------------------------------------------------------------------
\* The environment: repository layouts and what the user and the remote do

Branch(n) == [kind |-> "branch", name |-> n]
Tag(n) == [kind |-> "tag", name |-> n]

\* Local branches with the refs the remote serves, when there is an "origin".
Layouts ==
    { [local |-> {main},        server |-> <<Branch(main)>>],
      [local |-> {main, featx}, server |-> <<Tag(v1), Branch(main)>>],
      [local |-> {main, featx}, server |-> <<Branch(main), Branch(featx)>>] }
RemoteLayouts == { {}, {origin}, {"upstream"} }

SrvNames(refs) == {refs[i].name : i \in 1..Len(refs)}
SrvBranches(refs) == {refs[i].name : i \in {j \in 1..Len(refs) : refs[j].kind = "branch"}}

Init ==
    /\ pc = "new"
    /\ gitRepo = FALSE
    /\ gitRemote = None
    /\ fetchBranchInfo = <<>>
    /\ op = "env"
    /\ arg = <<>>
    /\ result = Raise("none")
    /\ calls = NoCalls
    /\ tick = 0
    /\ cur = main
    /\ dirty = FALSE
    /\ commits = {Root}
    /\ repoValid \in BOOLEAN
    /\ remotes \in RemoteLayouts
    /\ repoValid = FALSE => remotes = {}
    /\ \E l \in Layouts :
          LET refs == IF origin \in remotes THEN l.server ELSE <<>> IN
          /\ repoValid = FALSE => l.local = {main}
          /\ heads = [b \in l.local |-> Root]
          /\ srvRefs = refs
          /\ srv = [n \in SrvNames(refs) |-> Root]
          /\ tracking = [n \in SrvBranches(refs) |-> Root]

EnvStep ==
    /\ pc = "ready"
    /\ repoValid
    /\ op' = "env"
    /\ arg' = <<>>
    /\ result' = Raise("none")
    /\ calls' = NoCalls
    /\ UNCHANGED <<pc, repoValid, remotes, srvRefs, gitRepo, gitRemote, fetchBranchInfo, tick>>

\* The user edits a tracked file.
Modify ==
    /\ EnvStep
    /\ ~dirty
    /\ dirty' = TRUE
    /\ UNCHANGED <<heads, cur, commits, srv, tracking>>

\* The user discards the pending changes.
Restore ==
    /\ EnvStep
    /\ dirty
    /\ dirty' = FALSE
    /\ UNCHANGED <<heads, cur, commits, srv, tracking>>

\* The user commits the pending changes on the current branch.
LocalCommit ==
    /\ EnvStep
    /\ dirty
    /\ CanCommit
    /\ LET c == Commit("user", cur, {heads[cur]}) IN
          /\ commits' = commits \cup {c}
          /\ heads' = [heads EXCEPT ![cur] = c]
    /\ dirty' = FALSE
    /\ UNCHANGED <<cur, srv, tracking>>

\* Somebody pushes a new commit to a branch of the remote.
RemotePush ==
    /\ EnvStep
    /\ CanCommit
    /\ \E b \in SrvBranches(srvRefs) :
          LET c == Commit("remote", b, {srv[b]}) IN
          /\ commits' = commits \cup {c}
          /\ srv' = [srv EXCEPT ![b] = c]
    /\ UNCHANGED <<heads, cur, dirty, tracking>>

----------------------------------------------------------------------------
\* The SDK

\* FetchInfo of one ref the remote serves, as remote.fetch() reports it.
FetchInfoOf(remote, ref) ==
    [name   |-> IF ref.kind = "branch" THEN RefName(remote, ref.name) ELSE ref.name,
     commit |-> srv[ref.name],
     flags  |-> IF ref.kind = "tag" \/ tracking[ref.name] = srv[ref.name]
                THEN "HEAD_UPTODATE" ELSE "FAST_FORWARD"]

\* remote.fetch(): the list of FetchInfo, one per ref, in the remote's order.
fetch(remote) == [i \in 1..Len(srvRefs) |-> FetchInfoOf(remote, srvRefs[i])]

\* The remote-tracking refs once a fetch has run.
Fetched == [n \in DOMAIN tracking |-> srv[n]]

\* IterableList.__getitem__(name): the positions holding that name.
Lookup(list, name) == {i \in 1..Len(list) : list[i].name = name}

----------------------------------------------------------------------------
\* GitUtils

\* __init__ : the remote handle chosen once the repository is loaded.
\* "IndexError" stands for remotes['origin'] raising.
InitRemote(rs) ==
    IF Cardinality(rs) > 0
    THEN IF origin \in rs THEN origin ELSE "IndexError"
    ELSE None

\* self.__gitRepo = Repo(path): the handle is stored when the repository loads.
InitRepo_unstored(valid) == FALSE

InitRepo(valid) == valid

__init__ ==
    /\ pc = "new"
    /\ op' = "__init__"
    /\ arg' = <<>>
    /\ calls' = NoCalls
    /\ tick' = 1 - tick
    /\ fetchBranchInfo' = <<>>
    /\ IF repoValid
       THEN /\ gitRepo' = InitRepo(repoValid)
            /\ IF InitRemote(remotes) = "IndexError"
               THEN /\ gitRemote' = None
                    /\ pc' = "failed"
                    /\ result' = Raise("IndexError")
               ELSE /\ gitRemote' = InitRemote(remotes)
                    /\ pc' = "ready"
                    /\ result' = Raise("none")
       ELSE \* InvalidGitRepositoryError is caught
            /\ gitRepo' = FALSE
            /\ gitRemote' = None
            /\ pc' = "ready"
            /\ result' = Raise("none")
    /\ UNCHANGED envVars

\* An operation is called on the constructed controller.
Call(name, a) ==
    /\ pc = "ready"
    /\ op' = name
    /\ arg' = a
    /\ tick' = 1 - tick
    /\ UNCHANGED <<pc, repoValid, remotes, srvRefs, srv, gitRepo, gitRemote>>

getCurrentBranchRes ==
    IF ~gitRepo THEN Raise("AttributeError") ELSE RetStrs(<<cur>>)

getCurrentBranch ==
    /\ Call("getCurrentBranch", <<>>)
    /\ result' = getCurrentBranchRes
    /\ calls' = NoCalls
    /\ UNCHANGED <<heads, cur, dirty, commits, tracking, fetchBranchInfo>>

\* branch.name.split('/')[1]
BranchOf(name) == split(name)[2]

listBranch ==
    /\ Call("listBranch", <<>>)
    /\ IF gitRemote = None
       THEN /\ result' = RetStrs(<<>>)
            /\ calls' = NoCalls
            /\ UNCHANGED tracking
       ELSE LET fr == fetch(gitRemote) IN
            /\ calls' = [NoCalls EXCEPT !.fetch = 1]
            /\ tracking' = Fetched
            /\ IF \E i \in 1..Len(fr) : Len(split(fr[i].name)) < 2
               THEN result' = Raise("IndexError")
               ELSE result' = RetStrs([i \in 1..Len(fr) |-> BranchOf(fr[i].name)])
    /\ UNCHANGED <<heads, cur, dirty, commits, fetchBranchInfo>>

safeCheckRes_inverted ==
    IF ~gitRepo THEN FALSE ELSE dirty

safeCheckRes ==
    IF ~gitRepo THEN FALSE ELSE ~dirty

safeCheck ==
    /\ Call("safeCheck", <<>>)
    /\ result' = Ret(safeCheckRes)
    /\ calls' = NoCalls
    /\ UNCHANGED <<heads, cur, dirty, commits, tracking, fetchBranchInfo>>

UpToDate_swapped(remote_commit, current_commit) == is_ancestor(current_commit, remote_commit)

\* The ancestry test isUpToDate ends with.
UpToDate(remote_commit, current_commit) == is_ancestor(remote_commit, current_commit)

\* isUpToDate(branch), a = <<>> for branch=None: what it returns or raises, whether
\* the fetch ran, and the fetch info it stores.
isUpToDateRun(a) ==
    LET nothing == [fetched |-> FALSE, info |-> fetchBranchInfo] IN
    IF a = <<>> /\ getCurrentBranchRes.exc # "none"
    THEN [res |-> getCurrentBranchRes] @@ nothing
    ELSE LET branch == IF a = <<>> THEN getCurrentBranchRes.strs[1] ELSE a[1] IN
         IF ~gitRepo
         THEN [res |-> Raise("AttributeError")] @@ nothing
         ELSE IF branch \notin DOMAIN heads
         THEN [res |-> Raise("IndexError")] @@ nothing
         ELSE IF gitRemote = None
         THEN [res |-> Raise("AttributeError")] @@ nothing
         ELSE LET current_commit == heads[branch]
                  fetch_result == fetch(gitRemote)
                  found == Lookup(fetch_result, RefName(gitRemote, branch))
              IN  IF found = {}
                  THEN [res |-> Raise("IndexError"), fetched |-> TRUE, info |-> fetchBranchInfo]
                  ELSE LET info == fetch_result[CHOOSE i \in found : \A j \in found : i <= j]
                       IN  [res     |-> Ret(UpToDate(info.commit, current_commit)),
                            fetched |-> TRUE,
                            info    |-> <<info>>]

isUpToDate ==
    \E a \in {<<>>} \cup {<<b>> : b \in BranchArgs} :
        LET r == isUpToDateRun(a) IN
        /\ Call("isUpToDate", a)
        /\ result' = r.res
        /\ fetchBranchInfo' = r.info
        /\ tracking' = IF r.fetched THEN Fetched ELSE tracking
        /\ calls' = [NoCalls EXCEPT !.fetch = IF r.fetched THEN 1 ELSE 0]
        /\ UNCHANGED <<heads, cur, dirty, commits>>

\* remote.pull() on the current branch: git fetches, then fast-forwards, merges,
\* stops on a conflict or refuses to reconcile divergent branches.
PullOutcomes ==
    IF is_ancestor(heads[cur], srv[cur])
    THEN {"fast-forward"}
    ELSE {"conflict", "refused"} \cup (IF CanCommit THEN {"merge"} ELSE {})

update ==
    /\ Call("update", <<>>)
    /\ IF ~safeCheckRes
       THEN /\ result' = Ret(FALSE)
            /\ calls' = NoCalls
            /\ UNCHANGED <<heads, cur, dirty, commits, tracking, fetchBranchInfo>>
       ELSE LET r == isUpToDateRun(<<>>) IN
            /\ fetchBranchInfo' = r.info
            /\ tracking' = IF r.fetched THEN Fetched ELSE tracking
            /\ UNCHANGED cur
            /\ IF r.res.exc # "none"
               THEN /\ result' = r.res
                    /\ calls' = [NoCalls EXCEPT !.fetch = IF r.fetched THEN 1 ELSE 0]
                    /\ UNCHANGED <<heads, dirty, commits>>
               ELSE IF r.res.bool = "true"
               THEN /\ result' = Ret(FALSE)
                    /\ calls' = [NoCalls EXCEPT !.fetch = 1]
                    /\ UNCHANGED <<heads, dirty, commits>>
               ELSE IF gitRemote # None
               THEN /\ calls' = [NoCalls EXCEPT !.fetch = 1, !.pull = 1]
                    /\ \E outcome \in PullOutcomes :
                          CASE outcome = "fast-forward" ->
                                  /\ heads' = [heads EXCEPT ![cur] = srv[cur]]
                                  /\ result' = Ret(TRUE)
                                  /\ UNCHANGED <<dirty, commits>>
                            [] outcome = "merge" ->
                                  /\ LET m == Commit("merge", cur, {heads[cur], srv[cur]}) IN
                                        /\ commits' = commits \cup {m}
                                        /\ heads' = [heads EXCEPT ![cur] = m]
                                  /\ result' = Ret(TRUE)
                                  /\ UNCHANGED dirty
                            [] outcome = "conflict" ->
                                  /\ dirty' = TRUE
                                  /\ result' = Raise("GitCommandError")
                                  /\ UNCHANGED <<heads, commits>>
                            [] outcome = "refused" ->
                                  /\ result' = Raise("GitCommandError")
                                  /\ UNCHANGED <<heads, dirty, commits>>
               ELSE /\ result' = Ret(FALSE)
                    /\ calls' = [NoCalls EXCEPT !.fetch = 1]
                    /\ UNCHANGED <<heads, dirty, commits>>

AlreadyOn_never(branch) == FALSE

\* branch == self.getCurrentBranch()
AlreadyOn(branch) == <<branch>> = getCurrentBranchRes.strs

checkout ==
    \E branch \in BranchArgs :
        /\ Call("checkout", <<branch>>)
        /\ UNCHANGED <<heads, dirty, commits, tracking, fetchBranchInfo>>
        /\ IF ~safeCheckRes
           THEN /\ result' = Ret(FALSE)
                /\ calls' = NoCalls
                /\ UNCHANGED cur
           ELSE IF AlreadyOn(branch)
           THEN /\ result' = Ret(FALSE)
                /\ calls' = NoCalls
                /\ UNCHANGED cur
           ELSE IF branch \notin DOMAIN heads
           THEN /\ result' = Raise("IndexError")
                /\ calls' = NoCalls
                /\ UNCHANGED cur
           ELSE /\ cur' = branch
                /\ result' = Ret(TRUE)
                /\ calls' = [NoCalls EXCEPT !.checkout = 1]

Next ==
    \/ __init__
    \/ getCurrentBranch
    \/ listBranch
    \/ safeCheck
    \/ isUpToDate
    \/ update
    \/ checkout
    \/ Modify
    \/ Restore
    \/ LocalCommit
    \/ RemotePush

Spec == Init /\ [][Next]_vars

----------------------------------------------------------------------------
\* Vocabulary of the properties

Loaded == pc = "ready" /\ gitRepo
BoolOps == {"safeCheck", "isUpToDate", "update", "checkout"}

\* The branch an isUpToDate call is about.
AskedBranch == IF arg = <<>> THEN cur ELSE arg[1]

\* How a local tip stands to a remote tip.
Relation(local, remote) ==
    IF local = remote THEN "equal"
    ELSE IF remote \in AncestorsOf(local) THEN "ahead"
    ELSE IF local \in AncestorsOf(remote) THEN "behind"
    ELSE "diverged"

\* A ref's name with only the leading "<remote>/" removed.
StripPrefix(remote, name) ==
    IF Len(name) >= 2 /\ name[1] = remote /\ name[2] = Sep
    THEN SubSeq(name, 3, Len(name))
    ELSE name

----------------------------------------------------------------------------
\* C1: on a valid repository without remotes, listBranch() returns the empty
\* list and isUpToDate() and update() return false, with no fetch or pull and
\* without raising.
C1_NoRemoteReturnsEmptyOrFalse ==
    (Loaded /\ gitRemote = None) =>
        /\ op = "listBranch" => result = RetStrs(<<>>)
        /\ op \in {"isUpToDate", "update"} => result = Ret(FALSE)
        /\ op \in {"listBranch", "isUpToDate", "update"} => calls = NoCalls

\* C2: when the path is not a valid repository the constructor does not raise
\* and afterwards every operation returns false or empty, never raising.
C2_DegradedNeverRaises ==
    (pc # "new" /\ ~repoValid) =>
        /\ pc = "ready"
        /\ result.exc = "none"
        /\ op \in BoolOps => result = Ret(FALSE)
        /\ op \in {"listBranch", "getCurrentBranch"} => result = RetStrs(<<>>)

\* C3: on a dirty working tree update() and checkout(b), for every b, return
\* false without raising and without any fetch, pull or branch switch.
C3_DirtyBlocksUpdateAndCheckout ==
    [][(pc = "ready" /\ dirty /\ op' \in {"update", "checkout"}) =>
          /\ result' = Ret(FALSE)
          /\ calls' = NoCalls
          /\ UNCHANGED <<heads, cur, dirty, commits, tracking>>]_vars

C3_Witness ==
    /\ Loaded /\ dirty
    /\ op = "checkout" /\ arg = <<featx>> /\ featx \in DOMAIN heads /\ cur = main
    /\ result = Ret(FALSE)
    /\ cur \in SrvBranches(srvRefs)
    /\ Relation(heads[cur], srv[cur]) = "behind"

C5_BehindThenUpdatePulls ==
    [][(/\ Loaded /\ gitRemote = origin /\ ~dirty
        /\ cur \in SrvBranches(srvRefs)
        /\ Relation(heads[cur], srv[cur]) = "behind") =>
          /\ (op' = "isUpToDate" /\ arg' = <<>>) => result' = Ret(FALSE)
          /\ op' = "update" =>
                /\ result' = Ret(TRUE)
                /\ calls'.pull = 1
                /\ cur' = cur
                /\ heads'[cur] = srv[cur]
                /\ srv' = srv]_vars

C5_Witness ==
    /\ Loaded /\ op = "update" /\ result = Ret(TRUE) /\ calls.pull = 1
    /\ cur = featx
    /\ heads[cur] = srv[cur]
    /\ heads[cur].by = "remote"
    /\ fetchBranchInfo = <<[name |-> RefName(origin, featx), commit |-> srv[featx],
                            flags |-> "FAST_FORWARD"]>>

\* C6: update() is idempotent: of two consecutive update() calls with nothing
\* changed in between, the second returns false (so at most one pull succeeds),
\* and after an update() that returned true the next one leaves every branch
\* pointer unchanged.
C6_UpdateIdempotent ==
    [][(pc = "ready" /\ op = "update" /\ op' = "update") =>
          /\ result' = Ret(FALSE)
          /\ calls'.pull = 0
          /\ result = Ret(TRUE) => heads' = heads]_vars

\* C7: checkout of the branch that is already checked out returns false and
\* changes nothing, on a clean tree as on a dirty one.
C7_CheckoutCurrentIsNoOp ==
    [][(Loaded /\ op' = "checkout" /\ arg' = <<cur>>) =>
          /\ result' = Ret(FALSE)
          /\ calls' = NoCalls
          /\ UNCHANGED <<heads, cur, dirty, commits, tracking, fetchBranchInfo>>]_vars

C7_Witness ==
    /\ Loaded /\ ~dirty
    /\ op = "checkout" /\ arg = <<cur>> /\ cur = featx
    /\ result = Ret(FALSE)

\* C8 as stated: an update() that returns false (tree not safe, or already up to
\* date) has changed nothing: branch pointers, working tree, remote-tracking
\* refs and the controller's fields, the stored fetch result included.
C8_FalseUpdateHasNoSideEffects ==
    [][(pc = "ready" /\ op' = "update" /\ result' = Ret(FALSE)) =>
          UNCHANGED <<heads, cur, dirty, commits, tracking,
                      gitRepo, gitRemote, fetchBranchInfo>>]_vars

\* C8 amended: an update() that returns false leaves the branch pointers, the
\* current branch, the working tree and the two handles unchanged.  When the
\* tree was not safe it also made no SDK call and left the remote-tracking refs
\* and the stored fetch result alone; when the branch was up to date it has
\* fetched once, so the remote-tracking refs equal the remote's refs and the
\* stored fetch result is the current branch's.
C8_FalseUpdateFetchesAtMost ==
    [][(pc = "ready" /\ op' = "update" /\ result' = Ret(FALSE)) =>
          /\ UNCHANGED <<heads, cur, dirty, commits, gitRepo, gitRemote>>
          /\ calls'.pull = 0 /\ calls'.checkout = 0
          /\ (~gitRepo \/ dirty) =>
                /\ calls' = NoCalls
                /\ UNCHANGED <<tracking, fetchBranchInfo>>
          /\ (gitRepo /\ ~dirty) =>
                /\ calls'.fetch = 1
                /\ tracking' = [n \in DOMAIN tracking |-> srv[n]]
                /\ Len(fetchBranchInfo') = 1
                /\ fetchBranchInfo'[1].name = RefName(gitRemote, cur)
                /\ fetchBranchInfo'[1].commit = srv[cur]]_vars

C8_Witness ==
    /\ Loaded /\ ~dirty
    /\ op = "update" /\ result = Ret(FALSE)
    /\ calls.fetch = 1
    /\ Len(fetchBranchInfo) = 1
    /\ fetchBranchInfo[1].name = RefName(origin, cur)
    /\ Relation(heads[cur], srv[cur]) = "ahead"
    /\ \E n \in DOMAIN tracking : tracking[n] # Root /\ n # cur

\* C9: with a remote, listBranch() does not raise and returns, in fetch order,
\* one entry per fetched ref: the ref's name with only the leading "origin/"
\* removed, also when the branch name itself contains "/".
C9_ListBranchStripsRemotePrefix ==
    (Loaded /\ gitRemote # None /\ op = "listBranch") =>
        /\ result.exc = "none"
        /\ Len(result.strs) = Len(srvRefs)
        /\ \A i \in 1..Len(srvRefs) :
              result.strs[i] = StripPrefix(gitRemote, fetch(gitRemote)[i].name)

\* C10: the remote handle is set only if the repository handle is, and once
\* construction is over no operation changes whether either handle is set.
C10_HandlesFixedAtConstruction ==
    /\ [](gitRemote # None => gitRepo)
    /\ [][pc # "new" => UNCHANGED <<gitRepo, gitRemote>>]_vars

C10_Witness ==
    /\ Loaded /\ gitRemote = origin
    /\ op = "update" /\ result = Ret(TRUE)
    /\ heads[cur].by = "merge"

====
